---- MODULE Spec2Model ----
(***************************************************************************)
(* Wake scheduler (src/infra/heartbeat-wake.ts) and session event queue    *)
(* (src/infra/system-events.ts) of openclaw.                               *)
(*                                                                         *)
(* The scheduler is module-level state mutated by requestHeartbeatNow,     *)
(* setHeartbeatWakeHandler, the setTimeout callback armed by schedule()    *)
(* and the continuation of that callback after `await active(...)`.  The   *)
(* host event loop serialises these, so each is one atomic action.         *)
(* resetHeartbeatWakeForTest is the test hook: Spec takes it as a step,     *)
(* SpecProduction and LiveSpec are the behaviours without it.              *)
(***************************************************************************)
EXTENDS Integers, Sequences, FiniteSets

VARIABLES
  handler,        \* heartbeat-wake.ts:12  registered handler or NULL
  pendingReason,  \* heartbeat-wake.ts:13  reason for the next run or NULL
  scheduled,      \* heartbeat-wake.ts:14  a timer fired while a run was in flight
  running,        \* heartbeat-wake.ts:15  re-entrancy guard
  timer,          \* heartbeat-wake.ts:16  NoTimer, or the delay of the timeout the handle names
  retryCount,     \* heartbeat-wake.ts:17
  timeouts,       \* host timer queue: delay -> number of outstanding setTimeout callbacks
  invocations,    \* handler calls awaiting their result: the closures of the callbacks
  uncaught,       \* an exception left the timer callback
  \* history of the run, kept to state the claims
  calls,          \* handler invocations started since the latest requestHeartbeatNow
  soleWake,       \* one requestHeartbeatNow from idle, then only transient skips
  wokenInRun,     \* requestHeartbeatNow was called while the latest run was in flight
  owed,           \* a call made during a run, handler registered since, awaits its run
  burst,          \* requestHeartbeatNow calls since the timer was armed, up to MaxBurst
  streak,         \* consecutive transient results since the latest other result or exhaustion
  latestReason,   \* reason of the latest call that gave one since the latest run started, or NULL
  settled,        \* {} or the one record of the result the latest step handled
  resets,         \* resetHeartbeatWakeForTest calls so far
  \* session event queue
  queues,         \* session key -> sequence of pending events
  enqueued,       \* session key -> number of events enqueued under it so far
  returned,       \* what the latest peek or drain returned
  overflowLog,    \* session keys of the overflow warnings emitted
  lastError,      \* error thrown by the latest queue operation, or NULL
  \* history of the queue, kept to state the claims
  sinceEmpty,     \* session key -> events accepted since its buffer was last empty
  dropped,        \* session key -> overflow warnings for it since its buffer was last empty
  lastDrained     \* session key -> highest event number a drain has returned

schedVars == <<handler, pendingReason, scheduled, running, timer, retryCount,
               timeouts, invocations, uncaught>>
histVars == <<calls, soleWake, wokenInRun, owed, burst, streak, latestReason, settled, resets>>
queueVars == <<queues, enqueued, returned, overflowLog, lastError,
               sinceEmpty, dropped, lastDrained>>
vars == <<schedVars, histVars, queueVars>>

----------------------------------------------------------------------------
(* Program constants *)

DEFAULT_COALESCE_MS == 250
DEFAULT_RETRY_MS == 1000
MAX_RETRIES == 10

(* Bounds and input sets *)

CustomCoalesceMs == 100      \* the one explicit opts.coalesceMs the model passes
MaxEnqueue == 21             \* enqueueSystemEvent calls accepted in one behaviour
MaxBurst == 2                \* burst counts requestHeartbeatNow calls up to this many
MaxResets == 1               \* resetHeartbeatWakeForTest calls in one behaviour

NULL == "null"               \* JavaScript null / undefined
NoTimer == -1                \* timer === null
NoMs == -1                   \* opts.coalesceMs not supplied

\* The code tests the handler only for null, so registering another function
\* acts on the state as registering the same one again does.
Handlers == {"h1"}
ReasonInputs == {"", "hook:wake"}
CoalesceInputs == {NoMs, CustomCoalesceMs}
Delays == {DEFAULT_COALESCE_MS, DEFAULT_RETRY_MS, CustomCoalesceMs}

HandlerResults ==
  { [status |-> "ran",     reason |-> ""],
    [status |-> "skipped", reason |-> "disabled"],
    [status |-> "skipped", reason |-> "quiet-hours"],
    [status |-> "failed",  reason |-> "error"],
    [status |-> "throw",   reason |-> ""] }

----------------------------------------------------------------------------
(* Helpers of the scheduler *)

\* JavaScript truthiness of a string-or-null value
Truthy(s) == s # NULL /\ s # ""

\* a ?? b
Coalesce(a, b) == IF a # NULL THEN a ELSE b

NoTimeouts == [d \in Delays |-> 0]

TimeoutCount == timeouts[DEFAULT_COALESCE_MS] + timeouts[DEFAULT_RETRY_MS]
                + timeouts[CustomCoalesceMs]

\* schedule() with the guard of line 24 dropped: every call arms a timeout
scheduleAlways(t, coalesceMs) ==
  [timer |-> coalesceMs,
   timeouts |-> [t.timeouts EXCEPT ![coalesceMs] = @ + 1]]

\* schedule(coalesceMs), lines 23-27 and 75-76: arm a timeout unless one is armed.
\* t is the pair (timer handle, host timer queue).
schedule(t, coalesceMs) ==
  IF t.timer # NoTimer
    THEN t
    ELSE [timer |-> coalesceMs,
          timeouts |-> [t.timeouts EXCEPT ![coalesceMs] = @ + 1]]

\* line 34 with the re-entrancy test dropped
neverBusy(isRunning) == FALSE

\* line 34: if (running)
busy(isRunning) == isRunning

\* lines 35-37 returning without the re-arm
dropWhileBusy(fired, coalesceMs) == [scheduled |-> FALSE, t |-> fired]

\* lines 35-37: scheduled = true; schedule(coalesceMs); return
rearmWhileBusy(fired, coalesceMs) == [scheduled |-> TRUE, t |-> schedule(fired, coalesceMs)]

\* line 45 widened to every skip
anySkip(res) == res.status = "skipped"

\* line 45: res.status === "skipped" && res.reason !== "disabled"
isTransientSkip(res) == res.status = "skipped" /\ res.reason # "disabled"

\* lines 48 and 61 with > for >=
exhaustedLate(count) == count > MAX_RETRIES

\* lines 48 and 61: retryCount >= MAX_RETRIES
exhausted(count) == count >= MAX_RETRIES

\* line 57 forgetting the reset
keepCount(count) == count

\* line 57: retryCount = 0
resetCount(count) == 0

\* lines 53-55 arming the retry at the coalescing delay
retryBranchCoalesce(reason, s) ==
  [s EXCEPT !.retryCount = @ + 1,
            !.pendingReason = Coalesce(reason, "retry"),
            !.t = schedule(@, DEFAULT_COALESCE_MS),
            !.branch = "retry"]

\* lines 53-55 and 66-68: retryCount++, restore the reason, arm the retry timer
retryBranch(reason, s) ==
  [s EXCEPT !.retryCount = @ + 1,
            !.pendingReason = Coalesce(reason, "retry"),
            !.t = schedule(@, DEFAULT_RETRY_MS),
            !.branch = "retry"]

\* lines 48-55: a transient skip retries unless the budget is spent
transientSkip(reason, s) ==
  IF exhausted(s.retryCount)
    THEN [s EXCEPT !.retryCount = 0, !.branch = "exhausted"]
    ELSE retryBranch(reason, s)

\* lines 59-68 without the catch: the exception leaves the callback
catchMissing(reason, s) == [s EXCEPT !.raised = TRUE]

\* lines 59-68: catch { ... }
catchBlock(reason, s) ==
  IF exhausted(s.retryCount)
    THEN [s EXCEPT !.retryCount = 0, !.branch = "exhausted"]
    ELSE retryBranch(reason, s)

\* lines 43-68: the try block after the await, and the catch
tryCatch(res, reason, s) ==
  IF res.status = "throw" THEN catchBlock(reason, s)
  ELSE IF isTransientSkip(res) THEN transientSkip(reason, s)
  ELSE [s EXCEPT !.retryCount = resetCount(@), !.branch = "reset"]

\* lines 69-74: finally { running = false; re-arm when something is pending }
finallyBlock(coalesceMs, isScheduled, s) ==
  IF Truthy(s.pendingReason) \/ isScheduled
    THEN [s EXCEPT !.t = schedule(@, coalesceMs)]
    ELSE s

\* lines 81-83 without the schedule() call
noArmOnRegister(next, pending, t) == t

\* lines 81-83: if (handler && pendingReason) schedule(DEFAULT_COALESCE_MS)
armOnRegister(next, pending, t) ==
  IF next # NULL /\ Truthy(pending) THEN schedule(t, DEFAULT_COALESCE_MS) ELSE t

\* line 87: opts?.reason ?? pendingReason ?? "requested"
nextReason(reason, pending) == Coalesce(reason, Coalesce(pending, "requested"))

\* line 88: opts?.coalesceMs ?? DEFAULT_COALESCE_MS
nextDelay(coalesceMs) == IF coalesceMs = NoMs THEN DEFAULT_COALESCE_MS ELSE coalesceMs

\* a result the claims call transient: a skip other than disabled, or a throw
Transient(res) == res.status = "throw" \/ (res.status = "skipped" /\ res.reason # "disabled")

\* hasPendingHeartbeatWake(), lines 95-97
hasPendingHeartbeatWake == pendingReason # NULL \/ timer # NoTimer \/ scheduled

\* hasHeartbeatWakeHandler(), lines 91-93
hasHeartbeatWakeHandler == handler # NULL

TimerState == [timer |-> timer, timeouts |-> timeouts]

Idle == /\ timer = NoTimer /\ TimeoutCount = 0 /\ pendingReason = NULL
        /\ ~scheduled /\ ~running /\ invocations = <<>> /\ retryCount = 0

\* The history is recorded up to the first resetHeartbeatWakeForTest and
\* holds its initial values from then on.
Recorded(v, initial) == IF resets = 0 THEN v ELSE initial

RemoveAt(seq, i) == [j \in 1..(Len(seq) - 1) |-> IF j < i THEN seq[j] ELSE seq[j + 1]]

----------------------------------------------------------------------------
(* Actions of the scheduler *)

\* setHeartbeatWakeHandler(next), lines 79-84
setHeartbeatWakeHandler(next) ==
  LET t == armOnRegister(next, pendingReason, [timer |-> timer, timeouts |-> timeouts])
  IN /\ handler' = next
     /\ timer' = t.timer
     /\ timeouts' = t.timeouts
     /\ soleWake' = FALSE
     /\ owed' = (owed /\ next # NULL)
     /\ burst' = IF timer = NoTimer /\ t.timer # NoTimer THEN 0 ELSE burst
     /\ settled' = {}
     /\ UNCHANGED <<pendingReason, scheduled, running, retryCount, invocations, uncaught>>
     /\ UNCHANGED <<calls, wokenInRun, streak, latestReason, resets>>
     /\ UNCHANGED queueVars

\* requestHeartbeatNow(opts), lines 86-89
requestHeartbeatNow(reason, coalesceMs) ==
  LET t == schedule(TimerState, nextDelay(coalesceMs))
  IN /\ pendingReason' = nextReason(reason, pendingReason)
     /\ timer' = t.timer
     /\ timeouts' = t.timeouts
     /\ calls' = 0
     /\ soleWake' = Recorded(Idle /\ handler # NULL, FALSE)
     /\ wokenInRun' = Recorded(wokenInRun \/ running, FALSE)
     /\ owed' = Recorded(owed \/ (running /\ handler # NULL), FALSE)
     /\ burst' = Recorded(IF timer = NoTimer THEN 1
                          ELSE IF burst < MaxBurst THEN burst + 1 ELSE burst, 0)
     /\ settled' = {}
     /\ latestReason' = Recorded(Coalesce(reason, latestReason), NULL)
     /\ UNCHANGED <<handler, scheduled, running, retryCount, invocations, uncaught>>
     /\ UNCHANGED <<streak, resets>>
     /\ UNCHANGED queueVars

\* The setTimeout callback up to the await, lines 27-44, for a timeout armed
\* with delay coalesceMs.
timerCallback(coalesceMs) ==
  /\ timeouts[coalesceMs] > 0
  /\ LET fired == [timer |-> NoTimer,
                   timeouts |-> [timeouts EXCEPT ![coalesceMs] = @ - 1]]
     IN IF handler = NULL
          THEN /\ timer' = fired.timer
               /\ timeouts' = fired.timeouts
               /\ scheduled' = FALSE
               /\ UNCHANGED <<pendingReason, running, invocations>>
               /\ UNCHANGED <<calls, wokenInRun, owed, burst, latestReason>>
        ELSE IF busy(running)
          THEN /\ scheduled' = rearmWhileBusy(fired, coalesceMs).scheduled
               /\ timer' = rearmWhileBusy(fired, coalesceMs).t.timer
               /\ timeouts' = rearmWhileBusy(fired, coalesceMs).t.timeouts
               /\ burst' = 0
               /\ UNCHANGED <<pendingReason, running, invocations>>
               /\ UNCHANGED <<calls, wokenInRun, owed, latestReason>>
        ELSE   /\ timer' = fired.timer
               /\ timeouts' = fired.timeouts
               /\ scheduled' = FALSE
               /\ pendingReason' = NULL
               /\ running' = TRUE
               /\ invocations' = Append(invocations,
                                        [reason |-> pendingReason,
                                         coalesceMs |-> coalesceMs,
                                         afterWakeInRun |-> owed,
                                         burst |-> burst])
               /\ calls' = Recorded(calls + 1, 0)
               /\ wokenInRun' = FALSE
               /\ owed' = FALSE
               /\ latestReason' = NULL
               /\ UNCHANGED burst
  /\ settled' = {}
  /\ UNCHANGED <<handler, retryCount, uncaught>>
  /\ UNCHANGED <<soleWake, streak, resets>>
  /\ UNCHANGED queueVars

\* The rest of the callback once invocation i has settled with res, lines 44-74.
handlerSettles(i, res) ==
  /\ i \in 1..Len(invocations)
  /\ LET inv == invocations[i]
         s0 == [retryCount |-> retryCount, pendingReason |-> pendingReason,
                t |-> TimerState, branch |-> "none", raised |-> FALSE]
         s1 == tryCatch(res, inv.reason, s0)
         s2 == finallyBlock(inv.coalesceMs, scheduled, s1)
     IN /\ retryCount' = s2.retryCount
        /\ pendingReason' = s2.pendingReason
        /\ timer' = s2.t.timer
        /\ timeouts' = s2.t.timeouts
        /\ running' = FALSE
        /\ uncaught' = (uncaught \/ s2.raised)
        /\ invocations' = RemoveAt(invocations, i)
        /\ streak' = Recorded(IF Transient(res) /\ s2.branch # "exhausted" THEN streak + 1 ELSE 0, 0)
        /\ soleWake' = (soleWake /\ isTransientSkip(res))
        /\ burst' = IF timer = NoTimer /\ s2.t.timer # NoTimer THEN 0 ELSE burst
        /\ settled' = Recorded(
                       {[res |-> res, reason |-> inv.reason, coalesceMs |-> inv.coalesceMs,
                         pre |-> s0, scheduled |-> scheduled, woken |-> wokenInRun,
                         nth |-> IF Transient(res) THEN streak + 1 ELSE 0,
                         branch |-> s2.branch]}, {})
  /\ UNCHANGED <<handler, scheduled>>
  /\ UNCHANGED <<calls, wokenInRun, owed, latestReason, resets>>
  /\ UNCHANGED queueVars

\* resetHeartbeatWakeForTest(), lines 99-109.  clearTimeout takes the timeout
\* the handle names off the host queue; handler calls in flight stay in
\* flight and their continuations still run.  The history ends here: the
\* closures keep what the code captured, reason and coalesceMs.
resetHeartbeatWakeForTest ==
  /\ resets < MaxResets
  /\ handler' = NULL
  /\ pendingReason' = NULL
  /\ scheduled' = FALSE
  /\ running' = FALSE
  /\ timeouts' = IF timer # NoTimer THEN [timeouts EXCEPT ![timer] = @ - 1] ELSE timeouts
  /\ timer' = NoTimer
  /\ retryCount' = 0
  /\ resets' = resets + 1
  /\ calls' = 0
  /\ soleWake' = FALSE
  /\ wokenInRun' = FALSE
  /\ owed' = FALSE
  /\ burst' = 0
  /\ streak' = 0
  /\ latestReason' = NULL
  /\ settled' = {}
  /\ invocations' = [j \in 1..Len(invocations) |->
                       [invocations[j] EXCEPT !.afterWakeInRun = FALSE, !.burst = 0]]
  /\ UNCHANGED uncaught
  /\ UNCHANGED queueVars

----------------------------------------------------------------------------
(* Session event queue (system-events.ts).  The operations follow section   *)
(* 4.2 of the specification and the calls made in system-events.test.ts.   *)

MAX_EVENTS == 20

Keys == {"main", "discord:group:123"}
BlankKeys == {"", " "}

AllKeys == Keys \cup BlankKeys

\* only the empty key refused
isEmptyKey(sessionKey) == sessionKey = ""

\* a session key that is empty or whitespace only
isBlank(sessionKey) == sessionKey \in BlankKeys

\* The text of the n-th event enqueued under a key: callers of different
\* sessions pass different texts, so a text tells where it was enqueued.
TextOf(sessionKey, n) == <<sessionKey, n>>

TotalEnqueued == enqueued["main"] + enqueued["discord:group:123"]
                 + enqueued[""] + enqueued[" "]

\* every buffer read as one
pendingOfAll(q, sessionKey) == q["main"] \o q["discord:group:123"]

Min(a, b) == IF a < b THEN a ELSE b
Max(a, b) == IF a > b THEN a ELSE b

\* the buffer of one session key
pendingOf(q, sessionKey) == q[sessionKey]

\* append without a capacity
pushUnbounded(buf, text) == Append(buf, text)

\* a full buffer keeps its oldest entry and loses its newest
pushEvictNewest(buf, text) ==
  IF Len(buf) + 1 > MAX_EVENTS
    THEN Append(SubSeq(buf, 1, Len(buf) - 1), text)
    ELSE Append(buf, text)

\* a drain that leaves the buffer as it is
kept(buf) == buf

\* the buffer a drain leaves
emptied(buf) == <<>>

\* append, evicting the oldest entry beyond MAX_EVENTS
pushBounded(buf, text) ==
  IF Len(buf) + 1 > MAX_EVENTS THEN Tail(Append(buf, text)) ELSE Append(buf, text)

\* enqueueSystemEvent(text, { sessionKey })
enqueueSystemEvent(sessionKey) ==
  IF isBlank(sessionKey)
    THEN /\ lastError' = "InvalidArgument"
         /\ returned' = {}
         /\ UNCHANGED <<queues, enqueued, overflowLog>>
         /\ UNCHANGED <<sinceEmpty, dropped, lastDrained>>
         /\ UNCHANGED <<schedVars, histVars>>
    ELSE /\ TotalEnqueued < MaxEnqueue
         /\ LET buf == pendingOf(queues, sessionKey)
                text == TextOf(sessionKey, enqueued[sessionKey] + 1)
            IN /\ queues' = [queues EXCEPT ![sessionKey] = pushBounded(buf, text)]
               /\ overflowLog' = IF Len(buf) + 1 > MAX_EVENTS
                                   THEN Append(overflowLog, sessionKey)
                                   ELSE overflowLog
         /\ enqueued' = [enqueued EXCEPT ![sessionKey] = @ + 1]
         /\ lastError' = NULL
         /\ returned' = {}
         /\ sinceEmpty' = [sinceEmpty EXCEPT ![sessionKey] =
                             IF queues[sessionKey] = <<>> THEN 1 ELSE @ + 1]
         /\ dropped' = [dropped EXCEPT ![sessionKey] =
                          (IF queues[sessionKey] = <<>> THEN 0 ELSE @)
                          + (IF /\ Len(overflowLog') = Len(overflowLog) + 1
                                /\ overflowLog'[Len(overflowLog')] = sessionKey
                               THEN 1 ELSE 0)]
         /\ UNCHANGED lastDrained
         /\ UNCHANGED <<schedVars, histVars>>

\* peekSystemEvents(sessionKey)
peekSystemEvents(sessionKey) ==
  /\ returned' = {[op |-> "peek", key |-> sessionKey,
                   events |-> pendingOf(queues, sessionKey),
                   drainedBefore |-> lastDrained[sessionKey]]}
  /\ lastError' = NULL
  /\ UNCHANGED <<queues, enqueued, overflowLog>>
  /\ UNCHANGED <<sinceEmpty, dropped, lastDrained>>
  /\ UNCHANGED <<schedVars, histVars>>

\* drainAndPrefix(sessionKey): the drain done by prependSystemEvents
drainSystemEvents(sessionKey) ==
  /\ returned' = {[op |-> "drain", key |-> sessionKey,
                   events |-> pendingOf(queues, sessionKey),
                   drainedBefore |-> lastDrained[sessionKey]]}
  /\ queues' = [queues EXCEPT ![sessionKey] = emptied(@)]
  /\ lastError' = NULL
  /\ sinceEmpty' = [sinceEmpty EXCEPT ![sessionKey] = Len(queues'[sessionKey])]
  /\ dropped' = [dropped EXCEPT ![sessionKey] = 0]
  /\ lastDrained' = [lastDrained EXCEPT ![sessionKey] =
                       IF pendingOf(queues, sessionKey) = <<>> THEN @
                       ELSE pendingOf(queues, sessionKey)[Len(pendingOf(queues, sessionKey))][2]]
  /\ UNCHANGED <<enqueued, overflowLog>>
  /\ UNCHANGED <<schedVars, histVars>>

----------------------------------------------------------------------------
(* Specifications *)

InitSched ==
  /\ handler = NULL
  /\ pendingReason = NULL
  /\ scheduled = FALSE
  /\ running = FALSE
  /\ timer = NoTimer
  /\ retryCount = 0
  /\ timeouts = NoTimeouts
  /\ invocations = <<>>
  /\ uncaught = FALSE
  /\ calls = 0
  /\ soleWake = FALSE
  /\ wokenInRun = FALSE
  /\ owed = FALSE
  /\ burst = 0
  /\ streak = 0
  /\ latestReason = NULL
  /\ settled = {}
  /\ resets = 0

InitQueue ==
  /\ queues = [k \in AllKeys |-> <<>>]
  /\ enqueued = [k \in AllKeys |-> 0]
  /\ returned = {}
  /\ overflowLog = <<>>
  /\ lastError = NULL
  /\ sinceEmpty = [k \in AllKeys |-> 0]
  /\ dropped = [k \in AllKeys |-> 0]
  /\ lastDrained = [k \in AllKeys |-> 0]

Init == InitSched /\ InitQueue

TimerFires == \E ms \in Delays : timerCallback(ms)

HandlerReturns == \E i \in 1..Len(invocations), res \in HandlerResults : handlerSettles(i, res)

\* The steps of the running gateway: the test hook is not among them.
NextProduction ==
  \/ \E next \in Handlers \cup {NULL} : setHeartbeatWakeHandler(next)
  \/ \E reason \in ReasonInputs \cup {NULL}, ms \in CoalesceInputs :
       requestHeartbeatNow(reason, ms)
  \/ TimerFires
  \/ HandlerReturns

SpecProduction == Init /\ [][NextProduction]_vars

\* The host fires every armed timeout, and every handler invocation settles.
LiveSpec == SpecProduction /\ WF_vars(TimerFires) /\ WF_vars(HandlerReturns)

\* Every exported operation of heartbeat-wake.ts, the test hook included.
Next ==
  \/ NextProduction
  \/ resetHeartbeatWakeForTest

Spec == Init /\ [][Next]_vars

NextQueue ==
  \/ \E k \in Keys \cup BlankKeys : enqueueSystemEvent(k)
  \/ \E k \in Keys : peekSystemEvents(k)
  \/ \E k \in Keys : drainSystemEvents(k)

SpecQueue == Init /\ [][NextQueue]_vars

----------------------------------------------------------------------------
(* Claims about the wake scheduler *)

\* C1: at most one handler invocation is in flight in every reachable state,
\* and a timer fire that finds running = true starts no invocation.
C1_SingleFlight ==
  /\ [](Len(invocations) <= 1)
  /\ [][(running /\ TimerFires) => invocations' = invocations]_vars

\* a timer fired during a run: the run is still the only one, a re-arm is noted
C1_Witness == running /\ scheduled /\ Len(invocations) = 1 /\ timer # NoTimer

\* C2: requestHeartbeatNow calls made while the timer is armed leave that one
\* timeout and its delay as they are and start nothing; the fire that ends the
\* window starts exactly one invocation and leaves nothing armed or pending.
C2_Debounce ==
  /\ []((burst >= 1 /\ timer # NoTimer) => (TimeoutCount = 1 /\ timeouts[timer] = 1))
  /\ [][\A r \in ReasonInputs \cup {NULL}, ms \in CoalesceInputs :
          (timer # NoTimer /\ requestHeartbeatNow(r, ms))
            => (timer' = timer /\ timeouts' = timeouts /\ invocations' = invocations)]_vars
  /\ [][(handler # NULL /\ ~running /\ burst >= 1 /\ TimerFires)
          => (/\ Len(invocations') = 1
              /\ timer' = NoTimer
              /\ TimeoutCount' = 0
              /\ pendingReason' = NULL
              /\ ~scheduled')]_vars

\* one invocation is in flight for a window that absorbed two or more calls
C2_Witness ==
  /\ Len(invocations) = 1
  /\ invocations[1].burst >= 2
  /\ timer = NoTimer
  /\ TimeoutCount = 0

\* C3: after one requestHeartbeatNow from idle, with only transient skips and
\* no further call, the handler is invoked at most MAX_RETRIES + 1 times; a
\* retry is armed after each of the first MAX_RETRIES results and the
\* scheduler is idle after the last one.
C3_RetryBudget ==
  soleWake =>
    /\ calls <= MAX_RETRIES + 1
    /\ running => calls = retryCount + 1
    /\ (~running /\ calls \in 1..MAX_RETRIES) =>
          /\ retryCount = calls
          /\ timer = DEFAULT_RETRY_MS
          /\ TimeoutCount = 1
          /\ pendingReason # NULL
    /\ (~running /\ calls = MAX_RETRIES + 1) => Idle

C3_Witness == soleWake /\ calls = MAX_RETRIES + 1 /\ ~running /\ Idle

\* C4: a run that ends skipped/"disabled" sets retryCount to 0 whatever it was
\* and schedules no retry; with no requestHeartbeatNow during the run nothing
\* is armed or pending afterwards.
C4_DisabledIsPermanent ==
  \A s \in settled :
    (s.res.status = "skipped" /\ s.res.reason = "disabled") =>
      /\ retryCount = 0
      /\ s.branch = "reset"
      /\ ~s.woken => (timer = NoTimer /\ TimeoutCount = 0 /\ pendingReason = NULL)

C4_Witness ==
  \E s \in settled :
    /\ s.res.status = "skipped" /\ s.res.reason = "disabled"
    /\ s.pre.retryCount = MAX_RETRIES
    /\ ~s.woken
    /\ retryCount = 0
    /\ timer = NoTimer

\* C5: a failed result is handled as a transient skip is: below the budget
\* retryCount is incremented, the reason restored and a timer armed; at the
\* budget exhaustion is reported and retryCount reset.
C5_FailedIsTransient ==
  \A s \in settled :
    s.res.status = "failed" =>
      IF s.pre.retryCount < MAX_RETRIES
        THEN /\ retryCount = s.pre.retryCount + 1
             /\ pendingReason = Coalesce(s.reason, "retry")
             /\ timer # NoTimer
        ELSE /\ s.branch = "exhausted"
             /\ retryCount = 0

\* C6: after a run that ends ran retryCount is 0; exhaustion is reached only
\* by the (MAX_RETRIES + 1)-th transient result in a row, and below that
\* retryCount is the length of the row, so no retry is carried over a ran.
C6_RanResetsBudget ==
  \A s \in settled :
    /\ s.res.status = "ran" => (retryCount = 0 /\ s.nth = 0 /\ streak = 0)
    /\ s.branch = "exhausted" => s.nth = MAX_RETRIES + 1
    /\ s.branch = "retry" => (s.nth <= MAX_RETRIES /\ retryCount = s.nth)

C6_Witness ==
  \E s \in settled :
    s.res.status = "ran" /\ s.pre.retryCount = MAX_RETRIES /\ retryCount = 0

\* C7: when timers fire and invocations settle, a requestHeartbeatNow made
\* during a run with the handler registered leads to a further invocation
\* after that run, or else to the handler being unregistered.
C7_WakeInRunServed ==
  owed ~> ((Len(invocations) = 1 /\ invocations[1].afterWakeInRun) \/ handler = NULL)

\* the run that serves a call made during the run before it
C7_Witness ==
  /\ Len(invocations) = 1
  /\ invocations[1].afterWakeInRun
  /\ handler # NULL
  /\ ~owed

\* C8 as claimed: after a transient result below the budget the armed timer
\* has the retry delay.
C8_RetryDelayAlways ==
  \A s \in settled :
    (Transient(s.res) /\ s.pre.retryCount < MAX_RETRIES) => timer = DEFAULT_RETRY_MS

\* C8 amended: after a transient result below the budget exactly one timeout
\* is armed; it has the retry delay when none was armed as the run ended, and
\* otherwise it is the one armed during the run, with its own delay.
C8_RetryDelayUnlessArmed ==
  \A s \in settled :
    (Transient(s.res) /\ s.pre.retryCount < MAX_RETRIES) =>
      /\ TimeoutCount = 1
      /\ timeouts[timer] = 1
      /\ timer = IF s.pre.t.timer = NoTimer THEN DEFAULT_RETRY_MS ELSE s.pre.t.timer
      /\ s.pre.t.timer # NoTimer => (s.woken /\ s.pre.t.timer # DEFAULT_RETRY_MS)

C8_Witness ==
  \E s \in settled :
    /\ Transient(s.res)
    /\ s.pre.retryCount < MAX_RETRIES
    /\ s.pre.t.timer = NoTimer
    /\ s.woken
    /\ timer = DEFAULT_RETRY_MS

\* C9: a throwing invocation leaves the state a transient skip would leave
\* (retry below the budget, exhaustion and reset at it), clears running, and
\* no exception leaves the callback.
C9_ThrowIsTransient ==
  /\ ~uncaught
  /\ \A s \in settled :
       s.res.status = "throw" =>
         LET e == finallyBlock(s.coalesceMs, s.scheduled, transientSkip(s.reason, s.pre))
         IN /\ ~running
            /\ retryCount = e.retryCount
            /\ pendingReason = e.pendingReason
            /\ timer = e.t.timer
            /\ timeouts = e.t.timeouts
            /\ s.branch = e.branch
            /\ IF s.pre.retryCount >= MAX_RETRIES
                 THEN retryCount = 0 /\ s.branch = "exhausted"
                 ELSE /\ retryCount = s.pre.retryCount + 1
                      /\ pendingReason = Coalesce(s.reason, "retry")
                      /\ timer # NoTimer

C9_Witness ==
  \E s \in settled :
    /\ s.res.status = "throw"
    /\ s.pre.retryCount = MAX_RETRIES
    /\ s.branch = "exhausted"
    /\ retryCount = 0
    /\ ~running

\* C15: a requestHeartbeatNow with a reason overwrites the pending reason,
\* one without keeps it or sets "requested"; and the reason handed to an
\* invocation is that of the latest call that gave one since the run before
\* it started.
C15_LatestReason ==
  /\ [][\A r \in ReasonInputs \cup {NULL}, ms \in CoalesceInputs :
          requestHeartbeatNow(r, ms)
            => pendingReason' = IF r # NULL THEN r
                                ELSE IF pendingReason # NULL THEN pendingReason
                                ELSE "requested"]_vars
  /\ [][(TimerFires /\ Len(invocations') = Len(invocations) + 1 /\ latestReason # NULL)
          => invocations'[Len(invocations')].reason = latestReason]_vars

\* C16: a fire without a handler invokes nothing and keeps the pending
\* reason; registering a handler while a reason is pending arms a timer and
\* invokes nothing in that step; registering one with none pending arms none.
C16_RegisterArms ==
  /\ [][(handler = NULL /\ TimerFires)
          => (invocations' = invocations /\ pendingReason' = pendingReason)]_vars
  /\ [][\A h \in Handlers :
          setHeartbeatWakeHandler(h)
            => /\ invocations' = invocations
               /\ pendingReason' = pendingReason
               /\ IF pendingReason # NULL
                    THEN timer' # NoTimer /\ TimeoutCount' = 1
                    ELSE timer' = timer /\ timeouts' = timeouts]_vars

\* C17: at most one timeout is outstanding in every reachable state, and it
\* is the one the timer handle names; this holds with the test hook among
\* the steps too.
C17_OneTimer ==
  /\ TimeoutCount <= 1
  /\ (timer = NoTimer) <=> (TimeoutCount = 0)
  /\ timer # NoTimer => timeouts[timer] = 1

\* a fire during the run re-armed, then the run ended in a retry: one timeout
C17_Witness ==
  \E s \in settled :
    /\ s.branch = "retry"
    /\ s.scheduled
    /\ s.woken
    /\ Truthy(pendingReason)
    /\ TimeoutCount = 1

\* C18: retryCount stays within 0..MAX_RETRIES, also when the test hook
\* leaves several handler calls in flight.
C18_CountBound == retryCount \in 0..MAX_RETRIES

C18_Witness ==
  \E s \in settled :
    /\ s.res.status = "throw"
    /\ s.pre.retryCount = MAX_RETRIES - 1
    /\ retryCount = MAX_RETRIES

\* C19: a non-empty pending reason with a handler registered and no run in
\* flight always has a timer armed.
C19_NoStrandedWake ==
  (Truthy(pendingReason) /\ handler # NULL /\ ~running)
    => (timer # NoTimer /\ TimeoutCount = 1)

\* a run that a call came in during has ended without a retry: the reason of
\* that call is pending, nothing is in flight, and the timer is armed
C19_Witness ==
  \E s \in settled :
    /\ s.branch = "reset"
    /\ s.woken
    /\ Truthy(pendingReason)
    /\ handler # NULL
    /\ ~running
    /\ timer # NoTimer

\* C20: requestHeartbeatNow and setHeartbeatWakeHandler leave retryCount and
\* running as they are, and a transient result exhausts the budget exactly
\* when it is the (MAX_RETRIES + 1)-th in a row, whatever calls came between.
C20_NoRefill ==
  /\ [][((\E r \in ReasonInputs \cup {NULL}, ms \in CoalesceInputs : requestHeartbeatNow(r, ms))
          \/ (\E h \in Handlers \cup {NULL} : setHeartbeatWakeHandler(h)))
          => (retryCount' = retryCount /\ running' = running)]_vars
  /\ [](\A s \in settled :
          Transient(s.res) =>
            /\ s.nth \in 1..(MAX_RETRIES + 1)
            /\ (s.branch = "exhausted") <=> (s.nth = MAX_RETRIES + 1)
            /\ s.pre.retryCount = s.nth - 1)

\* the budget ran out on a run during which a call came in
C20_Witness ==
  \E s \in settled :
    /\ s.branch = "exhausted"
    /\ s.nth = MAX_RETRIES + 1
    /\ s.woken
    /\ retryCount = 0

----------------------------------------------------------------------------
(* Claims about the session event queue *)

\* C10: a buffer holds only events enqueued under its own key, peek and drain
\* of a key return only events enqueued under that key, and a drain leaves
\* the buffer of every other key as it was.
C10_SessionIsolation ==
  /\ [](\A k \in Keys : \A i \in 1..Len(queues[k]) : queues[k][i][1] = k)
  /\ [](\A r \in returned : \A i \in 1..Len(r.events) : r.events[i][1] = r.key)
  /\ [][\A k \in Keys :
          drainSystemEvents(k) => \A other \in Keys \ {k} : queues'[other] = queues[other]]_vars

\* main was drained of its own events while the other session has some pending
C10_Witness ==
  \E r \in returned :
    /\ r.op = "drain"
    /\ r.key = "main"
    /\ Len(r.events) >= 1
    /\ queues["main"] = <<>>
    /\ Len(queues["discord:group:123"]) >= 1

\* C11: after n enqueues under a key since its buffer was empty the buffer
\* holds the last min(n, MAX_EVENTS) texts in arrival order, and one overflow
\* warning carrying that key was emitted for each enqueue beyond MAX_EVENTS.
C11_Overflow ==
  \A k \in Keys :
    LET n == sinceEmpty[k]
        buf == queues[k]
    IN /\ Len(buf) = Min(n, MAX_EVENTS)
       /\ \A i \in 1..Len(buf) : buf[i] = TextOf(k, enqueued[k] - Len(buf) + i)
       /\ dropped[k] = Max(0, n - MAX_EVENTS)
       /\ Cardinality({i \in 1..Len(overflowLog) : overflowLog[i] = k}) >= dropped[k]
       /\ (n = enqueued[k]) =>
            Cardinality({i \in 1..Len(overflowLog) : overflowLog[i] = k})
              = Max(0, n - MAX_EVENTS)

\* the 21st enqueue under one key evicted the first event and warned once
C11_Witness ==
  \E k \in Keys :
    /\ sinceEmpty[k] = MAX_EVENTS + 1
    /\ Len(queues[k]) = MAX_EVENTS
    /\ queues[k][1] = TextOf(k, 2)
    /\ queues[k][MAX_EVENTS] = TextOf(k, MAX_EVENTS + 1)
    /\ overflowLog = <<k>>

\* C12: no buffer is ever longer than MAX_EVENTS, and an enqueue on a full
\* buffer is accepted: no error, and the new text is the last element.
C12_Capacity ==
  /\ [](\A k \in AllKeys : Len(queues[k]) <= MAX_EVENTS)
  /\ [][\A k \in Keys :
          (Len(queues[k]) = MAX_EVENTS /\ enqueueSystemEvent(k))
            => (/\ lastError' = NULL
                /\ Len(queues'[k]) = MAX_EVENTS
                /\ queues'[k][MAX_EVENTS] = TextOf(k, enqueued[k] + 1)
                /\ enqueued'[k] = enqueued[k] + 1)]_vars

C12_Witness ==
  \E k \in Keys :
    /\ enqueued[k] = MAX_EVENTS + 1
    /\ Len(queues[k]) = MAX_EVENTS
    /\ queues[k][MAX_EVENTS] = TextOf(k, MAX_EVENTS + 1)
    /\ lastError = NULL

\* C13: a drain returns the buffer of its key as it was, in order, and leaves
\* it empty (returning the empty sequence when it was empty); no event is
\* returned by two drains; a peek returns the buffer and changes none.
C13_Drain ==
  /\ [](\A r \in returned :
          /\ r.op = "drain" => /\ queues[r.key] = <<>>
                               /\ \A i \in 1..Len(r.events) :
                                    r.events[i][2] > r.drainedBefore
          /\ r.op = "peek" => r.events = queues[r.key]
          /\ \A i \in 1..Len(r.events) : \A j \in 1..Len(r.events) :
               i < j => r.events[i][2] < r.events[j][2])
  /\ [][\A k \in Keys :
          /\ drainSystemEvents(k) => \E r \in returned' : r.events = queues[k]
          /\ peekSystemEvents(k) => (queues' = queues /\ \E r \in returned' : r.events = queues[k])]_vars

\* a second drain of a key returned the events enqueued since the first
C13_Witness ==
  \E r \in returned :
    /\ r.op = "drain"
    /\ r.drainedBefore >= 1
    /\ Len(r.events) >= 2
    /\ queues[r.key] = <<>>

\* C14: an enqueue with a blank key fails with an argument error and changes
\* no buffer and no overflow log; nothing is ever stored under a blank key.
C14_BlankKey ==
  /\ [](\A b \in BlankKeys : queues[b] = <<>> /\ enqueued[b] = 0)
  /\ [][\A b \in BlankKeys :
          enqueueSystemEvent(b)
            => (/\ lastError' = "InvalidArgument"
                /\ queues' = queues
                /\ overflowLog' = overflowLog)]_vars

C14_Witness ==
  /\ lastError = "InvalidArgument"
  /\ Len(queues["main"]) >= 1
  /\ \A b \in BlankKeys : queues[b] = <<>>

====
